---- MODULE Spec2Model ----
(***************************************************************************)
(* Model of parse_roster_pdfs.py: parse_roster_pdf (the page / table / row *)
(* loops with the carried page context) and main (the batch loop over the  *)
(* roster profile documents).                                              *)
(*                                                                         *)
(* A Python string is a sequence of one-character strings, so that strip,  *)
(* upper, replace, join, the substring test and the three regular          *)
(* expressions are computed character by character.  Python's None is the  *)
(* value None below, which no character sequence equals.                   *)
(***************************************************************************)
EXTENDS Integers, Sequences, FiniteSets, TLC

None == <<"None">>

\* Truth value of a str-or-None operand of `if x` and `if not x`: neither
\* None nor ''.  (A list that is never None is false exactly when it is <<>>.)
Truthy(x) == x # None /\ x # <<>>

\* ------------------------------------------------------------------------
\* str methods and operators
\* ------------------------------------------------------------------------

LowerLetters == <<"a","b","c","d","e","f","g","h","i","j","k","l","m",
                  "n","o","p","q","r","s","t","u","v","w","x","y","z">>

UpperLetters == <<"A","B","C","D","E","F","G","H","I","J","K","L","M",
                  "N","O","P","Q","R","S","T","U","V","W","X","Y","Z">>

Digits == {"0","1","2","3","4","5","6","7","8","9"}

Whitespace == {" ", "\t", "\n", "\r", "\f"}

UpperSet == {UpperLetters[i] : i \in 1..26}

UpperChar(c) ==
    IF \E i \in 1..26 : LowerLetters[i] = c
    THEN UpperLetters[CHOOSE i \in 1..26 : LowerLetters[i] = c]
    ELSE c

\* s.upper()
Upper(s) == [i \in 1..Len(s) |-> UpperChar(s[i])]

\* s.strip()
Strip(s) ==
    LET keep == {i \in 1..Len(s) : s[i] \notin Whitespace}
    IN  IF keep = {} THEN <<>>
        ELSE LET lo == CHOOSE i \in keep : \A j \in keep : i <= j
                 hi == CHOOSE i \in keep : \A j \in keep : j <= i
             IN  SubSeq(s, lo, hi)

\* s.replace(c, '') for a single character c
RECURSIVE RemoveChar(_, _)
RemoveChar(s, c) ==
    IF s = <<>> THEN <<>>
    ELSE IF Head(s) = c THEN RemoveChar(Tail(s), c)
         ELSE <<Head(s)>> \o RemoveChar(Tail(s), c)

\* text[i:].startswith(lit), i counted from 1
StartsAt(text, i, lit) ==
    /\ i >= 1
    /\ i + Len(lit) - 1 <= Len(text)
    /\ SubSeq(text, i, i + Len(lit) - 1) = lit

\* sub in s
Contains(s, sub) == \E i \in 1..(Len(s) - Len(sub) + 1) : StartsAt(s, i, sub)

\* ' '.join(cells)
RECURSIVE Join(_)
Join(cells) ==
    IF cells = <<>> THEN <<>>
    ELSE IF Len(cells) = 1 THEN cells[1]
         ELSE cells[1] \o <<" ">> \o Join(Tail(cells))

\* Smallest member of a non-empty set of positions.
Min(S) == CHOOSE i \in S : \A j \in S : i <= j

Max(S) == CHOOSE i \in S : \A j \in S : j <= i

\* Position just past the longest run of characters of class cls that
\* starts at position i (i itself when text[i] is not in cls).
RunEnd(text, i, cls) ==
    LET stops == {j \in i..Len(text) : text[j] \notin cls}
    IN  IF stops = {} THEN Len(text) + 1 ELSE Min(stops)

\* ------------------------------------------------------------------------
\* String literals of the source
\* ------------------------------------------------------------------------

S_ROSTER_PROFILE == <<"R","O","S","T","E","R"," ","P","R","O","F","I","L","E">>

S_MODEL_LABEL == <<"R","o","s","t","e","r"," ","C","o","n","s","t","r","u","c","t","i","o","n"," ","M","o","d","e","l",":">>

S_GAM_LABEL == <<"2","0","2","5"," ","G","A","M"," ","A","V","A","I","L","A","B","L","E">>

S_ROSTER_DESIGNATION == <<"R","O","S","T","E","R"," ","D","E","S","I","G","N","A","T","I","O","N">>

S_NAME == <<"N","A","M","E">>

S_DESIGNATION == <<"D","E","S","I","G","N","A","T","I","O","N">>

S_STATUS == <<"S","T","A","T","U","S">>

S_CONTRACT == <<"C","O","N","T","R","A","C","T">>

S_THRU == <<"T","H","R","U">>

S_OPTION == <<"O","P","T","I","O","N">>

S_SENIOR_ROSTER == <<"S","E","N","I","O","R"," ","R","O","S","T","E","R">>

S_SUPPLEMENTAL_ROSTER == <<"S","U","P","P","L","E","M","E","N","T","A","L"," ","R","O","S","T","E","R">>

S_SUPPLEMENTAL_SPOT == <<"S","U","P","P","L","E","M","E","N","T","A","L"," ","S","P","O","T">>

S_OFF_ROSTER == <<"O","F","F","-","R","O","S","T","E","R">>

S_DESIGNATED_PLAYERS == <<"D","E","S","I","G","N","A","T","E","D"," ","P","L","A","Y","E","R","S">>

S_U22_INITIATIVE_UC == <<"U","2","2"," ","I","N","I","T","I","A","T","I","V","E">>

S_UNAVAILABLE_PLAYERS == <<"U","N","A","V","A","I","L","A","B","L","E"," ","P","L","A","Y","E","R","S">>

S_NO_DOT == <<"N","O",".">>

S_Designated_Player == <<"D","e","s","i","g","n","a","t","e","d"," ","P","l","a","y","e","r">>

S_Young_Designated == <<"Y","o","u","n","g"," ","D","e","s","i","g","n","a","t","e","d">>

S_U22_Initiative == <<"U","2","2"," ","I","n","i","t","i","a","t","i","v","e">>

S_TAM_Player == <<"T","A","M"," ","P","l","a","y","e","r">>

S_Homegrown == <<"H","o","m","e","g","r","o","w","n">>

S_Generation_adidas == <<"G","e","n","e","r","a","t","i","o","n"," ","a","d","i","d","a","s">>

S_Generation_Adidas == <<"G","e","n","e","r","a","t","i","o","n"," ","A","d","i","d","a","s">>

S_Standard == <<"S","t","a","n","d","a","r","d">>

S_2025 == <<"2","0","2","5">>

S_2024 == <<"2","0","2","4">>

\* ------------------------------------------------------------------------
\* The three context patterns (re.search: leftmost match, greedy operators)
\* ------------------------------------------------------------------------

\* The character class [A-Z\s&\.FC]
TeamClass == UpperSet \cup Whitespace \cup {"&", "."}

\* Positions where ^ matches under re.MULTILINE.
LineStarts(text) == {1} \cup {i + 1 : i \in {j \in 1..Len(text) : text[j] = "\n"}}

\* ([A-Z\s&\.FC]+)\s*\|\s*ROSTER PROFILE matched at position p.  The class
\* holds every whitespace character and not "|", so the only capture that
\* can be followed by \s*\| is the longest run of class characters.
TeamMatchAt(text, p) ==
    LET e == RunEnd(text, p, TeamClass)
    IN  /\ e > p
        /\ e <= Len(text)
        /\ text[e] = "|"
        /\ StartsAt(text, RunEnd(text, e + 1, Whitespace), S_ROSTER_PROFILE)

\* team_match.group(1), or None when re.search finds no match.
team_match(text) ==
    LET ps == {p \in LineStarts(text) : TeamMatchAt(text, p)}
    IN  IF ps = {} THEN None
        ELSE SubSeq(text, Min(ps), RunEnd(text, Min(ps), TeamClass) - 1)

\* Position of the first "\n" at or after i, or just past the end.
LineEnd(text, i) ==
    LET nl == {j \in i..Len(text) : text[j] = "\n"}
    IN  IF nl = {} THEN Len(text) + 1 ELSE Min(nl)

\* Where (.+) can start after the label at p: \s* is greedy and gives
\* characters back until one that is not a newline follows it.
ModelStarts(text, p) ==
    LET q == p + Len(S_MODEL_LABEL)
    IN  {s \in q..RunEnd(text, q, Whitespace) : s <= Len(text) /\ text[s] # "\n"}

\* model_match.group(1), or None.
model_match(text) ==
    LET ps == {p \in 1..Len(text) :
                  StartsAt(text, p, S_MODEL_LABEL) /\ ModelStarts(text, p) # {}}
    IN  IF ps = {} THEN None
        ELSE LET s == Max(ModelStarts(text, Min(ps)))
             IN  SubSeq(text, s, LineEnd(text, s) - 1)

\* Where ([\d,]+) starts after the label at p: past \s* and an optional "$".
GamStart(text, p) ==
    LET q == RunEnd(text, p + Len(S_GAM_LABEL), Whitespace)
    IN  IF q <= Len(text) /\ text[q] = "$" THEN q + 1 ELSE q

\* gam_match.group(1), or None.
gam_match(text) ==
    LET cls == Digits \cup {","}
        ps == {p \in 1..Len(text) :
                  /\ StartsAt(text, p, S_GAM_LABEL)
                  /\ RunEnd(text, GamStart(text, p), cls) > GamStart(text, p)}
    IN  IF ps = {} THEN None
        ELSE LET d == GamStart(text, Min(ps))
             IN  SubSeq(text, d, RunEnd(text, d, cls) - 1)

\* Faulty variant: the first team matched is kept, a later header never replaces it.
NewTeam_first(text, team) ==
    IF team_match(text) # None /\ team = None THEN Strip(team_match(text)) ELSE team

\* The page context after the page's text is applied (lines 39-53).
NewTeam(text, team) ==
    IF team_match(text) # None THEN Strip(team_match(text)) ELSE team

NewRosterModel(text, model) ==
    IF model_match(text) # None THEN Strip(model_match(text)) ELSE model

NewGam(text, gam) ==
    IF gam_match(text) # None THEN RemoveChar(gam_match(text), ",") ELSE gam

\* ------------------------------------------------------------------------
\* Header resolution and column indices (lines 61-107)
\* ------------------------------------------------------------------------

\* An index variable that holds None.
NoneIdx == -1

\* headers = None.  A header list holds strings only (test_headers turns a
\* null cell into ''), so no header list equals this one.
NoHeaders == <<None>>

\* [str(h).upper() if h else '' for h in row]
test_headers(row) ==
    [i \in 1..Len(row) |-> IF Truthy(row[i]) THEN Upper(row[i]) ELSE <<>>]

\* 'ROSTER DESIGNATION' in ' '.join(test_headers)
HasRosterDesignation(row) ==
    Contains(Join(test_headers(row)), S_ROSTER_DESIGNATION)

\* Faulty variant: the second row is tried before the first.
ResolveHeaders_second(table) ==
    IF Len(table) > 1 /\ HasRosterDesignation(table[2])
    THEN [headers |-> test_headers(table[2]), start_row |-> 2]
    ELSE IF table[1] # <<>> /\ HasRosterDesignation(table[1])
         THEN [headers |-> test_headers(table[1]), start_row |-> 1]
         ELSE [headers |-> NoHeaders, start_row |-> 0]

\* headers and start_row after lines 66-81, for a table of two rows or more.
ResolveHeaders(table) ==
    IF table[1] # <<>> /\ HasRosterDesignation(table[1])
    THEN [headers |-> test_headers(table[1]), start_row |-> 1]
    ELSE IF Len(table) > 1 /\ HasRosterDesignation(table[2])
         THEN [headers |-> test_headers(table[2]), start_row |-> 2]
         ELSE [headers |-> NoHeaders, start_row |-> 0]

\* not headers or 'NAME' not in ' '.join(headers)   (line 84)
NotRosterTable(headers) ==
    \/ headers = NoHeaders
    \/ headers = <<>>
    \/ ~Contains(Join(headers), S_NAME)

\* One pass of the loop body of lines 95-104 for header cell h at index i.
ScanCell(idx, h, i) ==
    IF Contains(h, S_NAME) /\ idx.name_idx = NoneIdx
    THEN [idx EXCEPT !.name_idx = i]
    ELSE IF Contains(h, S_DESIGNATION)
    THEN [idx EXCEPT !.designation_idx = i]
    ELSE IF Contains(h, S_STATUS)
    THEN [idx EXCEPT !.status_idx = i]
    ELSE IF Contains(h, S_CONTRACT) /\ Contains(h, S_THRU)
    THEN [idx EXCEPT !.contract_idx = i]
    ELSE IF Contains(h, S_OPTION)
    THEN [idx EXCEPT !.option_idx = i]
    ELSE idx

\* The loop of line 94 from header cell i (0-based) on.
RECURSIVE ScanHeaders(_, _, _)
ScanHeaders(headers, i, idx) ==
    IF i >= Len(headers) THEN idx
    ELSE ScanHeaders(headers, i + 1, ScanCell(idx, headers[i + 1], i))

\* The five column indices after lines 88-104.
ColumnIndices(headers) ==
    ScanHeaders(headers, 0,
                [name_idx |-> NoneIdx, designation_idx |-> NoneIdx,
                 status_idx |-> NoneIdx, contract_idx |-> NoneIdx,
                 option_idx |-> NoneIdx])

\* ------------------------------------------------------------------------
\* Row classification and record assembly (lines 110-177)
\* ------------------------------------------------------------------------

skip_terms == {S_NAME, S_SENIOR_ROSTER, S_SUPPLEMENTAL_ROSTER,
               S_SUPPLEMENTAL_SPOT, S_OFF_ROSTER, S_DESIGNATED_PLAYERS,
               S_U22_INITIATIVE_UC, S_UNAVAILABLE_PLAYERS, S_NO_DOT}

\* Faulty variant: the noise terms are looked for in the name as written.
SkipRow_cased(row, name_idx) ==
    IF row = <<>> \/ Len(row) <= name_idx THEN TRUE
    ELSE IF ~Truthy(row[name_idx + 1]) \/ ~Truthy(Strip(row[name_idx + 1]))
    THEN TRUE
    ELSE \E term \in skip_terms : Contains(Strip(row[name_idx + 1]), term)

\* The three `continue` tests of lines 111-127.
SkipRow(row, name_idx) ==
    IF row = <<>> \/ Len(row) <= name_idx THEN TRUE
    ELSE IF ~Truthy(row[name_idx + 1]) \/ ~Truthy(Strip(row[name_idx + 1]))
    THEN TRUE
    ELSE \E term \in skip_terms : Contains(Upper(Strip(row[name_idx + 1])), term)

\* Faulty variant: the cell is taken as it is, not trimmed.
OptionalCell_untrimmed(row, idx) ==
    IF idx # NoneIdx /\ Len(row) > idx
    THEN IF Truthy(row[idx + 1]) THEN row[idx + 1] ELSE <<>>
    ELSE <<>>

\* The optional cell of lines 130-147 for the column index idx.
OptionalCell(row, idx) ==
    IF idx # NoneIdx /\ Len(row) > idx
    THEN IF Truthy(row[idx + 1]) THEN Strip(row[idx + 1]) ELSE <<>>
    ELSE <<>>

\* Faulty variant: U22 Initiative is tested before Designated Player.
Category_u22first(designation) ==
    IF Contains(designation, S_U22_Initiative) THEN S_U22_Initiative
    ELSE IF \/ Contains(designation, S_Designated_Player)
            \/ Contains(designation, S_Young_Designated)
    THEN S_Designated_Player
    ELSE IF Contains(designation, S_TAM_Player) THEN S_TAM_Player
    ELSE IF Contains(designation, S_Homegrown) THEN S_Homegrown
    ELSE IF Contains(designation, S_Generation_adidas) THEN S_Generation_Adidas
    ELSE S_Standard

\* The category chain of lines 150-160.
Category(designation) ==
    IF \/ Contains(designation, S_Designated_Player)
       \/ Contains(designation, S_Young_Designated)
    THEN S_Designated_Player
    ELSE IF Contains(designation, S_U22_Initiative) THEN S_U22_Initiative
    ELSE IF Contains(designation, S_TAM_Player) THEN S_TAM_Player
    ELSE IF Contains(designation, S_Homegrown) THEN S_Homegrown
    ELSE IF Contains(designation, S_Generation_adidas) THEN S_Generation_Adidas
    ELSE S_Standard

\* Faulty variant: the context value is stored as it is, None included.
OrEmpty_asis(x) == x

\* x or ''
OrEmpty(x) == IF Truthy(x) THEN x ELSE <<>>

\* The player dict of lines 163-173.
Player(row, idx, team, model, gam) ==
    [team               |-> team,
     name               |-> Strip(row[idx.name_idx + 1]),
     roster_designation |-> OptionalCell(row, idx.designation_idx),
     current_status     |-> OptionalCell(row, idx.status_idx),
     contract_thru      |-> OptionalCell(row, idx.contract_idx),
     option_years       |-> OptionalCell(row, idx.option_idx),
     category           |-> Category(OptionalCell(row, idx.designation_idx)),
     roster_model       |-> OrEmpty(model),
     team_gam_2025      |-> OrEmpty(gam)]

\* ------------------------------------------------------------------------
\* State
\* ------------------------------------------------------------------------

\* The first page_num that is not skipped is SkipPages + 1 (line 32).
SkipPages == 3

VARIABLES
    pdf_files,             \* main: the documents found by the glob, in order
    file_i,                \* main: number of documents taken from pdf_files
    stdout,                \* what main has printed, one entry per report
    csv,                   \* the output files written so far, by season
    pc,                    \* position in main / parse_roster_pdf
    page_num,              \* parse_roster_pdf: number of the page last taken
    current_team,
    current_roster_model,
    current_gam,
    all_players,
    tables,                \* page.extract_tables() of the current page
    table_i,               \* number of tables taken from tables
    headers,
    start_row,
    cols,                  \* name_idx, designation_idx, status_idx, contract_idx, option_idx
    row_i                  \* number of rows of the table passed, header rows included

vars == <<pdf_files, file_i, stdout, csv, pc, page_num, current_team,
          current_roster_model, current_gam, all_players, tables, table_i,
          headers, start_row, cols, row_i>>

mainVars == <<pdf_files, file_i, stdout, csv>>

ctxVars == <<current_team, current_roster_model, current_gam>>

tableVars == <<tables, table_i, headers, start_row, cols>>

NoCols == [name_idx |-> NoneIdx, designation_idx |-> NoneIdx,
           status_idx |-> NoneIdx, contract_idx |-> NoneIdx,
           option_idx |-> NoneIdx]

\* The document being parsed, its page and table in hand.
pdf_file == pdf_files[file_i]

pages == pdf_file.pages

page == pages[page_num]

table == tables[table_i]

\* '2025' if '2025' in pdf_file.name else '2024'   (line 211)
Season(name) == IF Contains(name, S_2025) THEN S_2025 ELSE S_2024

\* The columns of pd.DataFrame(players): the keys of the player dict.
Columns == <<"team", "name", "roster_designation", "current_status",
             "contract_thru", "option_years", "category", "roster_model",
             "team_gam_2025">>

Teams(players) == {players[i].team : i \in 1..Len(players)}

\* ------------------------------------------------------------------------
\* main (lines 180-247)
\* ------------------------------------------------------------------------

\* Lines 189-191: the glob found nothing.
NoFiles ==
    /\ pc = "main"
    /\ pdf_files = <<>>
    /\ stdout' = Append(stdout, [kind |-> "no_pdfs", file |-> 0, n |-> 0])
    /\ pc' = "done"
    /\ UNCHANGED <<pdf_files, file_i, csv, page_num, ctxVars, all_players,
                   tableVars, row_i>>

\* Line 193.
FoundFiles ==
    /\ pc = "main"
    /\ pdf_files # <<>>
    /\ stdout' = Append(stdout, [kind |-> "found", file |-> 0, n |-> Len(pdf_files)])
    /\ pc' = "files"
    /\ UNCHANGED <<pdf_files, file_i, csv, page_num, ctxVars, all_players,
                   tableVars, row_i>>

\* Lines 195-199 and 24-29: take the next document and enter parse_roster_pdf.
NextFile ==
    /\ pc = "files"
    /\ file_i < Len(pdf_files)
    /\ file_i' = file_i + 1
    /\ stdout' = Append(stdout, [kind |-> "processing", file |-> file_i + 1, n |-> 0])
    /\ all_players' = <<>>
    /\ current_team' = None
    /\ current_roster_model' = None
    /\ current_gam' = None
    /\ page_num' = 0
    /\ tables' = <<>>
    /\ table_i' = 0
    /\ headers' = NoHeaders
    /\ start_row' = 0
    /\ cols' = NoCols
    /\ row_i' = 0
    /\ pc' = "pages"
    /\ UNCHANGED <<pdf_files, csv>>

\* The for loop of line 195 is exhausted.
Finish ==
    /\ pc = "files"
    /\ file_i = Len(pdf_files)
    /\ pc' = "done"
    /\ UNCHANGED <<mainVars, page_num, ctxVars, all_players, tableVars, row_i>>

\* Faulty variant: main returns after the warning instead of continuing.
WarnNoPlayers_return ==
    /\ pc = "report"
    /\ all_players = <<>>
    /\ stdout' = stdout \o <<[kind |-> "total", file |-> file_i, n |-> Len(all_players)],
                             [kind |-> "warning", file |-> file_i, n |-> 0]>>
    /\ pc' = "done"
    /\ UNCHANGED <<pdf_files, file_i, csv, page_num, ctxVars, all_players,
                   tableVars, row_i>>

\* Lines 201-205: nothing extracted.
WarnNoPlayers ==
    /\ pc = "report"
    /\ all_players = <<>>
    /\ stdout' = stdout \o <<[kind |-> "total", file |-> file_i, n |-> Len(all_players)],
                             [kind |-> "warning", file |-> file_i, n |-> 0]>>
    /\ pc' = "files"
    /\ UNCHANGED <<pdf_files, file_i, csv, page_num, ctxVars, all_players,
                   tableVars, row_i>>

\* Lines 201-247: the records are saved and summarised.
SaveCsv ==
    /\ pc = "report"
    /\ all_players # <<>>
    /\ csv' = [s \in DOMAIN csv \cup {Season(pdf_file.name)} |->
                  IF s = Season(pdf_file.name)
                  THEN [columns |-> Columns, rows |-> all_players]
                  ELSE csv[s]]
    /\ stdout' = stdout \o <<[kind |-> "total", file |-> file_i, n |-> Len(all_players)],
                             [kind |-> "saved", file |-> file_i, n |-> Len(all_players)],
                             [kind |-> "teams", file |-> file_i,
                              n |-> Cardinality(Teams(all_players))]>>
    /\ pc' = "files"
    /\ UNCHANGED <<pdf_files, file_i, page_num, ctxVars, all_players,
                   tableVars, row_i>>

\* ------------------------------------------------------------------------
\* parse_roster_pdf: the page loop (lines 30-59)
\* ------------------------------------------------------------------------

\* Faulty variant: the page's text is applied to the context before the
\* cover-page test skips the page.
SkipCoverPage_late ==
    /\ pc = "pages"
    /\ page_num < Len(pages)
    /\ page_num + 1 <= SkipPages
    /\ page_num' = page_num + 1
    /\ IF Truthy(pages[page_num + 1].text)
       THEN /\ current_team' = NewTeam(pages[page_num + 1].text, current_team)
            /\ current_roster_model' =
                   NewRosterModel(pages[page_num + 1].text, current_roster_model)
            /\ current_gam' = NewGam(pages[page_num + 1].text, current_gam)
       ELSE UNCHANGED ctxVars
    /\ UNCHANGED <<mainVars, pc, all_players, tableVars, row_i>>

\* Lines 32-33: a cover/info page.
SkipCoverPage ==
    /\ pc = "pages"
    /\ page_num < Len(pages)
    /\ page_num + 1 <= SkipPages
    /\ page_num' = page_num + 1
    /\ UNCHANGED <<mainVars, pc, ctxVars, all_players, tableVars, row_i>>

\* Lines 35-37: extract_text() gave None or ''.
SkipNoText ==
    /\ pc = "pages"
    /\ page_num < Len(pages)
    /\ page_num + 1 > SkipPages
    /\ ~Truthy(pages[page_num + 1].text)
    /\ page_num' = page_num + 1
    /\ UNCHANGED <<mainVars, pc, ctxVars, all_players, tableVars, row_i>>

\* Lines 39-53: the page's text is applied to the context.
UpdateContext(text) ==
    /\ current_team' = NewTeam(text, current_team)
    /\ current_roster_model' = NewRosterModel(text, current_roster_model)
    /\ current_gam' = NewGam(text, current_gam)

\* Lines 35-56: the context is updated and there is still no team.
PageWithoutTeam ==
    /\ pc = "pages"
    /\ page_num < Len(pages)
    /\ page_num + 1 > SkipPages
    /\ Truthy(pages[page_num + 1].text)
    /\ page_num' = page_num + 1
    /\ UpdateContext(pages[page_num + 1].text)
    /\ ~Truthy(current_team')
    /\ UNCHANGED <<mainVars, pc, all_players, tableVars, row_i>>

\* Faulty variant: the tables are extracted whether or not a team is set.
ExtractTables_noguard ==
    /\ pc = "pages"
    /\ page_num < Len(pages)
    /\ page_num + 1 > SkipPages
    /\ Truthy(pages[page_num + 1].text)
    /\ page_num' = page_num + 1
    /\ UpdateContext(pages[page_num + 1].text)
    /\ tables' = pages[page_num + 1].tables
    /\ table_i' = 0
    /\ pc' = "tables"
    /\ UNCHANGED <<mainVars, all_players, headers, start_row, cols, row_i>>

\* Lines 35-59: the context is updated and the page's tables are extracted.
ExtractTables ==
    /\ pc = "pages"
    /\ page_num < Len(pages)
    /\ page_num + 1 > SkipPages
    /\ Truthy(pages[page_num + 1].text)
    /\ page_num' = page_num + 1
    /\ UpdateContext(pages[page_num + 1].text)
    /\ Truthy(current_team')
    /\ tables' = pages[page_num + 1].tables
    /\ table_i' = 0
    /\ pc' = "tables"
    /\ UNCHANGED <<mainVars, all_players, headers, start_row, cols, row_i>>

\* Line 177: the page loop is exhausted, all_players is returned to main.
ReturnPlayers ==
    /\ pc = "pages"
    /\ page_num = Len(pages)
    /\ pc' = "report"
    /\ UNCHANGED <<mainVars, page_num, ctxVars, all_players, tableVars, row_i>>

\* ------------------------------------------------------------------------
\* parse_roster_pdf: the table loop (lines 61-107)
\* ------------------------------------------------------------------------

\* Lines 62-63: an empty table or a table of one row.
SkipShortTable ==
    /\ pc = "tables"
    /\ table_i < Len(tables)
    /\ tables[table_i + 1] = <<>> \/ Len(tables[table_i + 1]) < 2
    /\ table_i' = table_i + 1
    /\ UNCHANGED <<mainVars, pc, page_num, ctxVars, all_players, tables,
                   headers, start_row, cols, row_i>>

\* Lines 66-85 and 106-107: no header row is found, it lacks NAME, or no
\* name column is resolved.
RejectTable ==
    /\ pc = "tables"
    /\ table_i < Len(tables)
    /\ tables[table_i + 1] # <<>> /\ Len(tables[table_i + 1]) >= 2
    /\ LET r == ResolveHeaders(tables[table_i + 1])
       IN  /\ headers' = r.headers
           /\ start_row' = r.start_row
           /\ IF NotRosterTable(r.headers)
              THEN cols' = cols
              ELSE /\ cols' = ColumnIndices(r.headers)
                   /\ cols'.name_idx = NoneIdx
    /\ table_i' = table_i + 1
    /\ UNCHANGED <<mainVars, pc, page_num, ctxVars, all_players, tables, row_i>>

\* Lines 66-110: the header row is resolved and the row loop is entered.
AcceptTable ==
    /\ pc = "tables"
    /\ table_i < Len(tables)
    /\ tables[table_i + 1] # <<>> /\ Len(tables[table_i + 1]) >= 2
    /\ LET r == ResolveHeaders(tables[table_i + 1])
       IN  /\ headers' = r.headers
           /\ start_row' = r.start_row
           /\ ~NotRosterTable(r.headers)
           /\ cols' = ColumnIndices(r.headers)
           /\ cols'.name_idx # NoneIdx
           /\ row_i' = r.start_row
    /\ table_i' = table_i + 1
    /\ pc' = "rows"
    /\ UNCHANGED <<mainVars, page_num, ctxVars, all_players, tables>>

\* The table loop is exhausted: on to the next page.
EndTables ==
    /\ pc = "tables"
    /\ table_i = Len(tables)
    /\ pc' = "pages"
    /\ UNCHANGED <<mainVars, page_num, ctxVars, all_players, tableVars, row_i>>

\* ------------------------------------------------------------------------
\* parse_roster_pdf: the row loop (lines 110-175)
\* ------------------------------------------------------------------------

\* Lines 111-127: the row is not a player row.
SkippedRow ==
    /\ pc = "rows"
    /\ row_i < Len(table)
    /\ SkipRow(table[row_i + 1], cols.name_idx)
    /\ row_i' = row_i + 1
    /\ UNCHANGED <<mainVars, pc, page_num, ctxVars, all_players, tableVars>>

\* Lines 111-175: the row becomes a player record.
EmitRow ==
    /\ pc = "rows"
    /\ row_i < Len(table)
    /\ ~SkipRow(table[row_i + 1], cols.name_idx)
    /\ all_players' = Append(all_players,
                             Player(table[row_i + 1], cols, current_team,
                                    current_roster_model, current_gam))
    /\ row_i' = row_i + 1
    /\ UNCHANGED <<mainVars, pc, page_num, ctxVars, tableVars>>

\* The row loop is exhausted: on to the next table.
EndRows ==
    /\ pc = "rows"
    /\ row_i = Len(table)
    /\ pc' = "tables"
    /\ UNCHANGED <<mainVars, page_num, ctxVars, all_players, tableVars, row_i>>

\* ------------------------------------------------------------------------
\* Inputs: header rows, data rows, tables, page texts, pages, documents
\* ------------------------------------------------------------------------

\* Header rows.
H_std ==
    <<<<"N","A","M","E">>,
       <<"R","O","S","T","E","R"," ","D","E","S","I","G","N","A","T","I","O","N">>,
       <<"S","T","A","T","U","S">>>>

H_full ==
    <<<<"N","o",".">>,
       <<"N","a","m","e">>,
       <<"R","o","s","t","e","r"," ","D","e","s","i","g","n","a","t","i","o","n">>,
       <<"C","u","r","r","e","n","t"," ","S","t","a","t","u","s">>,
       <<"C","o","n","t","r","a","c","t"," ","T","h","r","u">>,
       <<"O","p","t","i","o","n"," ","Y","e","a","r","s">>>>

H_dup ==
    <<<<"N","A","M","E">>,
       <<"R","O","S","T","E","R"," ","D","E","S","I","G","N","A","T","I","O","N">>,
       <<"S","T","A","T","U","S">>,
       <<"I","N","T","L"," ","S","T","A","T","U","S">>,
       <<"N","I","C","K","N","A","M","E">>>>

H_split ==
    <<<<"R","O","S","T","E","R">>,
       <<"D","E","S","I","G","N","A","T","I","O","N">>,
       <<"N","A","M","E">>>>

H_noname ==
    <<<<"R","O","S","T","E","R"," ","D","E","S","I","G","N","A","T","I","O","N">>,
       <<"S","T","A","T","U","S">>>>

\* A section banner and a legend row: no header.
R_banner ==
    <<<<"S","E","N","I","O","R"," ","R","O","S","T","E","R">>,
       None,
       None>>

R_legend ==
    <<<<"K","e","y">>,
       <<"M","e","a","n","i","n","g">>>>

R_empty == <<>>

\* Data rows.
D_smith ==
    <<<<"J","."," ","S","m","i","t","h">>,
       <<"H","o","m","e","g","r","o","w","n">>,
       <<"A","c","t","i","v","e">>>>

D_diaz ==
    <<<<" ","A","."," ","D","i","a","z"," ">>,
       <<"Y","o","u","n","g"," ","D","e","s","i","g","n","a","t","e","d"," ","P","l","a","y","e","r"," ","(","U","2","2"," ","I","n","i","t","i","a","t","i","v","e"," ","e","l","i","g","i","b","l","e",")">>,
       None,
       <<"A","c","t","i","v","e">>>>

D_vela ==
    <<<<"9">>,
       <<"C","."," ","V","e","l","a">>,
       <<"D","e","s","i","g","n","a","t","e","d"," ","P","l","a","y","e","r">>,
       <<" ","O","n"," ","L","o","a","n"," ">>,
       <<"2","0","2","5">>,
       <<"2","0","2","6">>>>

D_oko ==
    <<<<"T","."," ","O","k","o">>,
       <<"U","2","2"," ","I","n","i","t","i","a","t","i","v","e">>,
       <<>>,
       <<"2","0","2","6">>>>

D_ruiz ==
    <<<<"M","."," ","R","u","i","z">>,
       <<"T","A","M"," ","P","l","a","y","e","r">>>>

D_adams ==
    <<<<"K","."," ","A","d","a","m","s">>,
       <<"G","e","n","e","r","a","t","i","o","n"," ","a","d","i","d","a","s">>,
       <<"A","c","t","i","v","e">>>>

D_lee ==
    <<<<"B","."," ","L","e","e">>>>

D_noise ==
    <<<<"s","e","n","i","o","r"," ","r","o","s","t","e","r">>,
       <<"T","A","M"," ","P","l","a","y","e","r">>,
       <<"A","c","t","i","v","e">>>>

D_null ==
    <<None,
       <<"T","A","M"," ","P","l","a","y","e","r">>,
       <<"A","c","t","i","v","e">>>>

D_blank ==
    <<<<" "," ">>,
       <<"U","2","2"," ","I","n","i","t","i","a","t","i","v","e">>,
       <<"A","c","t","i","v","e">>>>

\* Page texts.
X_lafc ==
    <<"L","A","F","C"," ","|"," ","R","O","S","T","E","R"," ","P","R","O","F","I","L","E","\n">>
    \o <<"R","o","s","t","e","r"," ","C","o","n","s","t","r","u","c","t","i","o","n"," ","M","o","d","e","l",":"," ","A"," ","\n">>
    \o <<"2","0","2","5"," ","G","A","M"," ","A","V","A","I","L","A","B","L","E"," ","$","1",",","2","0","0">>

X_example ==
    <<"F","C"," ","E","X","A","M","P","L","E"," ","|"," ","R","O","S","T","E","R"," ","P","R","O","F","I","L","E">>

X_lower ==
    <<"F","C"," ","E","x","a","m","p","l","e"," ","|"," ","R","O","S","T","E","R"," ","P","R","O","F","I","L","E","\n">>
    \o <<"R","o","s","t","e","r"," ","C","o","n","s","t","r","u","c","t","i","o","n"," ","M","o","d","e","l",":"," ","B">>

X_blank_team ==
    <<" ","|"," ","R","O","S","T","E","R"," ","P","R","O","F","I","L","E">>

X_notes ==
    <<"N","o","t","e","s","\n">>
    \o <<"2","0","2","5"," ","G","A","M"," ","A","V","A","I","L","A","B","L","E"," ","2",",","5","0","0">>

\* Document names.
N_2025 ==
    <<"2","0","2","5"," ","R","o","s","t","e","r"," ","P","r","o","f","i","l","e",".","p","d","f">>

N_2024 ==
    <<"C","l","u","b"," ","R","o","s","t","e","r"," ","P","r","o","f","i","l","e",".","p","d","f">>

\* Bounds of the inputs.
MaxDataRows == 2

MaxBodyPages == 3

MaxFiles == 2

\* The sequences over S of length n at most.
SeqsOf(S, n) == UNION {[1..k -> S] : k \in 0..n}

\* What a table starts with: a header row, a banner above it, or neither.
HeaderParts ==
    {<<H_std>>, <<R_banner, H_std>>, <<H_full>>, <<H_dup>>, <<H_split>>,
     <<H_noname>>, <<H_noname, H_std>>, <<R_legend>>, <<R_empty, H_std>>,
     <<R_banner, R_legend>>, <<>>}

DataRows ==
    {D_smith, D_diaz, D_vela, D_oko, D_ruiz, D_adams, D_lee, D_noise,
     D_null, D_blank, H_std, R_empty}

Tables == {h \o d : h \in HeaderParts, d \in SeqsOf(DataRows, MaxDataRows)}

T_smith == <<H_std, D_smith>>

T_ruiz == <<R_banner, H_std, D_ruiz>>

T_legend == <<R_legend, R_legend>>

\* Pages that differ in their tables, under one team header.
TablePages ==
    {[text |-> X_lafc, tables |-> <<t>>] : t \in Tables}
    \cup {[text |-> X_lafc, tables |-> <<t1, t2>>] :
             t1 \in {T_legend, T_smith, <<>>}, t2 \in {T_ruiz, <<R_legend>>}}

P_lafc == [text |-> X_lafc, tables |-> <<T_smith>>]

P_blank == [text |-> <<>>, tables |-> <<>>]

\* Pages that differ in their text.
ContextPages ==
    {P_lafc,
     [text |-> X_example, tables |-> <<T_smith>>],
     [text |-> X_lower, tables |-> <<T_smith>>],
     [text |-> X_blank_team, tables |-> <<T_smith>>],
     [text |-> X_notes, tables |-> <<T_ruiz>>],
     [text |-> None, tables |-> <<T_smith>>]}

\* The leading cover/info pages: blank, or looking like a roster page.
Covers == {[i \in 1..SkipPages |-> P_blank], [i \in 1..SkipPages |-> P_lafc]}

Documents ==
    {[i \in 1..k |-> P_lafc] : k \in 0..(SkipPages - 1)}
    \cup {c \o b : c \in Covers, b \in SeqsOf(ContextPages, MaxBodyPages)}
    \cup {[i \in 1..SkipPages |-> P_blank] \o <<p>> : p \in TablePages}

\* The documents of a batch: one that yields records for each season, and
\* two that yield none.
BatchFiles ==
    {[name |-> N_2025, pages |-> [i \in 1..SkipPages |-> P_blank] \o <<P_lafc>>],
     [name |-> N_2024, pages |-> [i \in 1..SkipPages |-> P_blank] \o <<P_lafc, P_lafc>>],
     [name |-> N_2025, pages |-> [i \in 1..SkipPages |-> P_lafc]],
     [name |-> N_2024, pages |-> [i \in 1..SkipPages |-> P_blank]
                                  \o <<[text |-> X_lafc, tables |-> <<T_legend>>]>>]}

FileLists ==
    {<<[name |-> N_2025, pages |-> d]>> : d \in Documents}
    \cup SeqsOf(BatchFiles, MaxFiles)

\* ------------------------------------------------------------------------
\* Specification
\* ------------------------------------------------------------------------

Init ==
    /\ pdf_files \in FileLists
    /\ file_i = 0
    /\ stdout = <<>>
    /\ csv = <<>>
    /\ pc = "main"
    /\ page_num = 0
    /\ current_team = None
    /\ current_roster_model = None
    /\ current_gam = None
    /\ all_players = <<>>
    /\ tables = <<>>
    /\ table_i = 0
    /\ headers = NoHeaders
    /\ start_row = 0
    /\ cols = NoCols
    /\ row_i = 0

Next ==
    \/ NoFiles
    \/ FoundFiles
    \/ NextFile
    \/ Finish
    \/ WarnNoPlayers
    \/ SaveCsv
    \/ SkipCoverPage
    \/ SkipNoText
    \/ PageWithoutTeam
    \/ ExtractTables
    \/ ReturnPlayers
    \/ SkipShortTable
    \/ RejectTable
    \/ AcceptTable
    \/ EndTables
    \/ SkippedRow
    \/ EmitRow
    \/ EndRows

Spec == Init /\ [][Next]_vars

\* ------------------------------------------------------------------------
\* Properties
\* ------------------------------------------------------------------------

Last(s) == s[Len(s)]

\* A step of the row loop that appends a record to all_players.
Emits == pc = "rows" /\ Len(all_players') = Len(all_players) + 1

\* Page p of the document has text and the team pattern does not match it.
NoTeamHeader(p) == Truthy(pages[p].text) /\ team_match(pages[p].text) = None

\* The pages before page p, past the cover pages, whose text matches the
\* team pattern.
HeaderPagesBefore(p) ==
    {q \in (SkipPages + 1)..(p - 1) :
        Truthy(pages[q].text) /\ team_match(pages[q].text) # None}

\* C1: a record emitted from a page whose text has no team header carries
\* the team of the latest earlier page whose header matched: the team stays
\* that of page A on every later page without a header, with or without a
\* roster table, until a later page matches another team.
C1_StickyTeam ==
    [][(Emits /\ NoTeamHeader(page_num))
        => /\ HeaderPagesBefore(page_num) # {}
           /\ Last(all_players').team =
                  Strip(team_match(pages[Max(HeaderPagesBefore(page_num))].text))]_vars

\* C1 witness: pages A (team header), B and C (no team header, a roster
\* table on each) have each given a record, all three with A's team.
C1_Witness ==
    /\ file_i >= 1
    /\ pc = "rows"
    /\ page_num = SkipPages + 3
    /\ team_match(pages[SkipPages + 1].text) # None
    /\ NoTeamHeader(SkipPages + 2)
    /\ NoTeamHeader(SkipPages + 3)
    /\ pages[SkipPages + 3].tables # <<>>
    /\ Len(all_players) = 3
    /\ \A i \in 1..3 :
          all_players[i].team = Strip(team_match(pages[SkipPages + 1].text))

\* C2: within a document a context field that is set stays set, the team
\* never returns to unset or empty, and a field changes only on a page whose
\* text matches its pattern, to the trimmed capture (the cap figure with its
\* separators stripped).
C2_ContextNeverReset ==
    [][file_i' = file_i
        => /\ current_team # None => current_team' # None
           /\ current_roster_model # None => current_roster_model' # None
           /\ current_gam # None => current_gam' # None
           /\ Truthy(current_team) => Truthy(current_team')
           /\ current_team' # current_team
                 => /\ pc = "pages"
                    /\ team_match(pages[page_num'].text) # None
                    /\ current_team' = Strip(team_match(pages[page_num'].text))
           /\ current_roster_model' # current_roster_model
                 => /\ pc = "pages"
                    /\ model_match(pages[page_num'].text) # None
                    /\ current_roster_model' = Strip(model_match(pages[page_num'].text))
           /\ current_gam' # current_gam
                 => /\ pc = "pages"
                    /\ gam_match(pages[page_num'].text) # None
                    /\ current_gam' = RemoveChar(gam_match(pages[page_num'].text), ",")]_vars

\* C3: a record is appended only while a team is set; its team is the
\* context team of that moment, which is the page's own header when the page
\* has one; the context does not change while rows are read, and a record
\* once appended is never changed within the document.
C3_TeamBakedIn ==
    [][/\ Emits => /\ Truthy(current_team)
                   /\ Last(all_players').team = current_team
                   /\ current_team' = current_team
                   /\ team_match(page.text) # None
                         => Last(all_players').team = Strip(team_match(page.text))
       /\ (file_i' = file_i /\ file_i >= 1)
             => /\ Len(all_players') >= Len(all_players)
                /\ SubSeq(all_players', 1, Len(all_players)) = all_players]_vars

\* C3 witness: a record stamped with a team that its own page's header set,
\* replacing the team of the page before.
C3_Witness ==
    /\ file_i >= 1
    /\ pc = "rows"
    /\ Len(all_players) = 2
    /\ page_num = SkipPages + 2
    /\ team_match(page.text) # None
    /\ all_players[2].team = Strip(team_match(page.text))
    /\ all_players[1].team # all_players[2].team

\* A step of the table loop that takes the next table of the page.
TakesTable == pc = "tables" /\ table_i' = table_i + 1

\* The upper-cased cells of row, joined by spaces, contain lit.
RowContains(row, lit) == Contains(Join(test_headers(row)), lit)

\* C4: for a table of two rows or more, row 0 containing ROSTER DESIGNATION
\* gives offset 1; row 0 lacking it and row 1 containing it gives offset 2;
\* with neither, or with a resolved header row that lacks NAME, the table is
\* rejected: the table loop goes on and no record is added.  The rows of an
\* accepted table are read from the offset on.
C4_HeaderPrecedence ==
    [][/\ (TakesTable /\ Len(tables[table_i + 1]) >= 2)
            => LET t == tables[table_i + 1]
                   r0 == RowContains(t[1], S_ROSTER_DESIGNATION)
                   r1 == RowContains(t[2], S_ROSTER_DESIGNATION)
                   rejected == pc' = "tables" /\ all_players' = all_players
               IN  /\ r0 => start_row' = 1
                   /\ (~r0 /\ r1) => start_row' = 2
                   /\ (~r0 /\ ~r1) => rejected
                   /\ (r0 /\ ~RowContains(t[1], S_NAME)) => rejected
                   /\ (~r0 /\ r1 /\ ~RowContains(t[2], S_NAME)) => rejected
                   /\ pc' = "rows" => row_i' = start_row'
       /\ Emits => row_i >= start_row]_vars

\* C4 witness: a banner on row 0, the header on row 1, and the row at
\* offset 2 has become a record.
C4_Witness ==
    /\ pc = "rows"
    /\ start_row = 2
    /\ ~RowContains(table[1], S_ROSTER_DESIGNATION)
    /\ RowContains(table[2], S_ROSTER_DESIGNATION)
    /\ row_i = 3
    /\ Len(all_players) = 1

\* Index (from 0) of the first header cell that satisfies Has, or NoneIdx.
FirstIdx(hs, Has(_)) ==
    IF \E i \in 1..Len(hs) : Has(hs[i])
    THEN Min({i \in 1..Len(hs) : Has(hs[i])}) - 1
    ELSE NoneIdx

IsNameCell(h) == Contains(h, S_NAME)

IsDesignationCell(h) == Contains(h, S_DESIGNATION)

IsStatusCell(h) == Contains(h, S_STATUS)

IsContractCell(h) == Contains(h, S_CONTRACT) /\ Contains(h, S_THRU)

IsOptionCell(h) == Contains(h, S_OPTION)

\* C5: while the rows of a table are read, every column index is that of
\* the first header cell, from the left, that contains the role's token(s).
C5_FirstMatchWins ==
    pc = "rows"
        => /\ cols.name_idx = FirstIdx(headers, IsNameCell)
           /\ cols.designation_idx = FirstIdx(headers, IsDesignationCell)
           /\ cols.status_idx = FirstIdx(headers, IsStatusCell)
           /\ cols.contract_idx = FirstIdx(headers, IsContractCell)
           /\ cols.option_idx = FirstIdx(headers, IsOptionCell)

Categories ==
    {S_Designated_Player, S_U22_Initiative, S_TAM_Player, S_Homegrown,
     S_Generation_Adidas, S_Standard}

\* C6: the category of every record follows from its designation text by
\* the precedence Designated Player / Young Designated, U22 Initiative, TAM
\* Player, Homegrown, Generation adidas, else Standard; it is one of the six
\* values.
C6_CategoryPrecedence ==
    \A i \in 1..Len(all_players) :
        LET d == all_players[i].roster_designation
            c == all_players[i].category
            dp == Contains(d, S_Designated_Player) \/ Contains(d, S_Young_Designated)
            u22 == Contains(d, S_U22_Initiative)
            tam == Contains(d, S_TAM_Player)
            hg == Contains(d, S_Homegrown)
            ga == Contains(d, S_Generation_adidas)
        IN  /\ c \in Categories
            /\ dp => c = S_Designated_Player
            /\ (~dp /\ u22) => c = S_U22_Initiative
            /\ (~dp /\ ~u22 /\ tam) => c = S_TAM_Player
            /\ (~dp /\ ~u22 /\ ~tam /\ hg) => c = S_Homegrown
            /\ (~dp /\ ~u22 /\ ~tam /\ ~hg /\ ga) => c = S_Generation_Adidas
            /\ (~dp /\ ~u22 /\ ~tam /\ ~hg /\ ~ga) => c = S_Standard

\* C6 witness: a record whose designation holds both Young Designated and
\* U22 Initiative, classified Designated Player.
C6_Witness ==
    \E i \in 1..Len(all_players) :
        /\ Contains(all_players[i].roster_designation, S_Young_Designated)
        /\ Contains(all_players[i].roster_designation, S_U22_Initiative)
        /\ all_players[i].category = S_Designated_Player

\* A step of the row loop that passes the next row of the table.
TakesRow == pc = "rows" /\ row_i' = row_i + 1

\* The row is too short for the name column at index n, its name cell is
\* null or blank, or the trimmed upper-cased name holds a noise term.
NoiseOrBlank(row, n) ==
    IF Len(row) <= n THEN TRUE
    ELSE IF row[n + 1] = None THEN TRUE
    ELSE \/ Strip(row[n + 1]) = <<>>
         \/ \E term \in skip_terms : Contains(Upper(Strip(row[n + 1])), term)

\* C7: a row that is too short for the name column, has a null or blank
\* name cell, or a name holding a noise term in any letter case adds no
\* record; every record's name is non-empty, trimmed and free of noise terms.
C7_NoNoiseRecords ==
    [][/\ (TakesRow /\ NoiseOrBlank(table[row_i + 1], cols.name_idx))
             => all_players' = all_players
       /\ \A i \in 1..Len(all_players') :
             /\ all_players'[i].name # <<>>
             /\ Strip(all_players'[i].name) = all_players'[i].name
             /\ \A term \in skip_terms :
                   ~Contains(Upper(all_players'[i].name), term)]_vars

\* C7 witness: the first data row of a table named "senior roster", its
\* other cells populated, has been passed and no record exists.
C7_Witness ==
    /\ pc = "rows"
    /\ cols.name_idx = 0
    /\ row_i = start_row + 1
    /\ table[row_i] = D_noise
    /\ Truthy(table[row_i][2]) /\ Truthy(table[row_i][3])
    /\ all_players = <<>>

S_FC_EXAMPLE == <<"F","C"," ","E","X","A","M","P","L","E">>

S_FC_Example == <<"F","C"," ","E","x","a","m","p","l","e">>

S_J_Smith == <<"J","."," ","S","m","i","t","h">>

S_Active == <<"A","c","t","i","v","e">>

\* The row loop is about to read the single data row of the table
\* [NAME, ROSTER DESIGNATION, STATUS] / [J. Smith, Homegrown, Active], the
\* first table of the document, under the context team t with the roster
\* model and the cap figure unset.
ExampleRow(t) ==
    /\ pc = "rows"
    /\ table = <<H_std, D_smith>>
    /\ row_i = 1
    /\ current_team = t
    /\ current_roster_model = None
    /\ current_gam = None
    /\ all_players = <<>>

OptionalValue(row, idx) ==
    IF idx # NoneIdx /\ idx < Len(row) /\ row[idx + 1] # None
    THEN Strip(row[idx + 1])
    ELSE <<>>

\* C9: the four optional fields of an appended record are the trimmed cells
\* of its row, or '' where the role has no column, the row is too short or
\* the cell is null; a row with a valid name gives its record whatever its
\* optional cells are.
C9_OptionalFields ==
    [][/\ Emits
          => LET row == table[row_i + 1]
                 r == Last(all_players')
             IN  /\ r.roster_designation = OptionalValue(row, cols.designation_idx)
                 /\ r.current_status = OptionalValue(row, cols.status_idx)
                 /\ r.contract_thru = OptionalValue(row, cols.contract_idx)
                 /\ r.option_years = OptionalValue(row, cols.option_idx)
       /\ (TakesRow /\ ~NoiseOrBlank(table[row_i + 1], cols.name_idx)) => Emits]_vars

\* C9 witness: two records, the first from a row that stops before the
\* designation column, the second from a row whose status cell is null, in
\* a table that has no contract column.
C9_Witness ==
    /\ pc = "rows"
    /\ row_i = 3
    /\ start_row = 1
    /\ cols.designation_idx # NoneIdx
    /\ cols.status_idx # NoneIdx
    /\ cols.contract_idx = NoneIdx
    /\ Len(table[2]) <= cols.designation_idx
    /\ Len(table[3]) > cols.status_idx
    /\ table[3][cols.status_idx + 1] = None
    /\ Len(all_players) = 2
    /\ all_players[1].roster_designation = <<>>
    /\ all_players[2].current_status = <<>>
    /\ all_players[2].roster_designation # <<>>
    /\ all_players[2].contract_thru = <<>>

\* stdout holds an entry of this kind for document i.
Printed(out, kind, i) == \E k \in 1..Len(out) : out[k].kind = kind /\ out[k].file = i

\* C10: a document that yields no records gets the warning, no output file
\* is written for it, and the batch goes on: when main ends, every document
\* found has been processed, each one with no records has its warning and
\* no save, and no output file holds zero rows.
C10_NothingExtracted ==
    [][/\ (pc = "report" /\ all_players = <<>>)
             => /\ csv' = csv
                /\ Last(stdout').kind = "warning" /\ Last(stdout').file = file_i
                /\ pc' = "files"
       /\ (pc # "done" /\ pc' = "done")
             => \A i \in 1..Len(pdf_files) :
                   /\ Printed(stdout', "processing", i)
                   /\ Printed(stdout', "warning", i) # Printed(stdout', "saved", i)
       /\ \A s \in DOMAIN csv' : csv'[s].rows # <<>>]_vars

\* C10 witness: main has ended on a batch of two documents, the first with
\* a warning and no output file, the second saved.
C10_Witness ==
    /\ pc = "done"
    /\ Len(pdf_files) = 2
    /\ Printed(stdout, "warning", 1)
    /\ ~Printed(stdout, "saved", 1)
    /\ Printed(stdout, "saved", 2)
    /\ Cardinality(DOMAIN csv) = 1

\* C11: as long as no page past the first SkipPages pages has been taken,
\* the team, the roster model and the cap figure are unset, no record
\* exists and no table or row is being read, whatever the text and the
\* tables of those pages.
C11_CoverPagesSkipped ==
    page_num <= SkipPages
        => /\ current_team = None
           /\ current_roster_model = None
           /\ current_gam = None
           /\ all_players = <<>>
           /\ pc \notin {"tables", "rows"}

\* C11 witness: the three cover pages, each with a team header, a roster
\* model, a cap figure and a roster table, have been passed.
C11_Witness ==
    /\ file_i >= 1
    /\ pc = "pages"
    /\ page_num = SkipPages
    /\ \A p \in 1..SkipPages :
          /\ Truthy(pages[p].text)
          /\ team_match(pages[p].text) # None
          /\ model_match(pages[p].text) # None
          /\ gam_match(pages[p].text) # None
          /\ pages[p].tables = <<T_smith>>
    /\ current_team = None
    /\ all_players = <<>>

====
